---- MODULE Spec2Model ----
(***************************************************************************)
(* A model of the network orchestrator (neurax/modules/network.py), of the *)
(* SWC morphology reader (neurax/utils/swc.py) and of the renaming of a    *)
(* channel (jaxley/channels/channel.py).                                   *)
(*                                                                         *)
(* Python arrays are modelled as TLA+ sequences: the entry with Python     *)
(* index k is the entry k + 1 of the sequence.  The values stored in the   *)
(* arrays (branch indices, compartment indices, node ids, the -1 of a root)*)
(* are kept exactly as the code stores them.                               *)
(***************************************************************************)
EXTENDS Integers, Sequences, FiniteSets, TLC

VARIABLES
    cells,                       \* self.cells: the Cell objects given to __init__
    conns,                       \* the synapses of self.connectivities: <<pre, post>> compartments
    nseg,                        \* self.nseg
    initialized_morph,           \* self.initialized_morph
    initialized_conds,           \* self.initialized_conds
    nbranches,                   \* self.nbranches
    cumsum_num_branches,         \* self.cumsum_num_branches
    comb_parents,                \* self.comb_parents
    comb_branches_in_each_level, \* self.comb_branches_in_each_level
    nodes,                       \* self.nodes (the rows of the DataFrame)
    conds,                       \* the five conductance attributes of the Network
    module_attrs,                \* the attributes the base class Module left on the Network
    last_step,                   \* the last call of step: its inputs, what it built, what it returned
    swc_content,                 \* the rows of the SWC file handed to read_swc
    swc_out,                     \* what read_swc did with swc_content
    channel_name,                \* Channel.channel_name (a string: the sequence of its characters)
    channel_params,              \* Channel.channel_params (a dict: the sequence of its items)
    channel_states,              \* Channel.channel_states
    last_rename                  \* the last call of change_name: its argument and the dicts before it

vars == <<cells, conns, nseg, initialized_morph, initialized_conds, nbranches,
          cumsum_num_branches, comb_parents, comb_branches_in_each_level, nodes,
          conds, module_attrs, last_step, swc_content, swc_out,
          channel_name, channel_params, channel_states, last_rename>>

netvars == <<cells, conns, nseg, initialized_morph, initialized_conds, nbranches,
             cumsum_num_branches, comb_parents, comb_branches_in_each_level, nodes,
             conds, module_attrs, last_step>>

swcvars == <<swc_content, swc_out>>

chanvars == <<channel_name, channel_params, channel_states, last_rename>>

(***************************************************************************)
(* Bounds of the model.                                                    *)
(***************************************************************************)
MaxCells == 2          \* cells of a network
MaxBranches == 3       \* branches of a cell whose parent array is any tree
MaxKids == 5           \* children of the root of a star-shaped cell
MaxNseg == 2           \* compartments per branch of a cell
MaxComps == 6          \* compartments of a network of several cells (indexing)
MaxStepComps == 2      \* compartments of a network that is stepped
MaxSyn == 1            \* synapses of a network that is stepped
MaxStim == 1           \* stimulated compartments of one step
MaxTerm == 1           \* largest channel term, synapse term and injected current
MaxNodes == 6          \* rows of an SWC file
MaxKeyLen == 2         \* characters of a key of a channel's parameters and states
MaxEntries == 2        \* parameters and states of a channel, together
MaxNameLen == 1        \* characters of a channel name

(***************************************************************************)
(* Arrays.                                                                 *)
(***************************************************************************)
RECURSIVE SeqSum(_)
SeqSum(s) == IF s = <<>> THEN 0 ELSE s[1] + SeqSum(Tail(s))

RECURSIVE Flatten(_)
Flatten(ss) == IF ss = <<>> THEN <<>> ELSE ss[1] \o Flatten(Tail(ss))

Repeat(x, n) == [k \in 1..n |-> x]

SeqRange(s) == {s[k] : k \in 1..Len(s)}

\* The position (from 1) of the first entry of s equal to x.
FirstPos(s, x) == CHOOSE k \in 1..Len(s) : s[k] = x /\ \A j \in 1..(k - 1) : s[j] # x

RECURSIVE Ascending(_)
\* The integers of the finite set S in increasing order.
Ascending(S) ==
    IF S = {} THEN <<>>
    ELSE LET m == CHOOSE x \in S : \A y \in S : x <= y
         IN  <<m>> \o Ascending(S \ {m})

(***************************************************************************)
(* Cells.  A cell is [nseg, parents]: its compartments per branch and its  *)
(* parent array (parents[b] is the parent branch of branch b, -1 for the   *)
(* root).                                                                  *)
(***************************************************************************)
RECURSIVE Ancestor(_, _, _)
\* The branch reached from branch b by following k parent pointers (-1 past the root).
Ancestor(p, b, k) ==
    IF k = 0 \/ b = -1 THEN b ELSE Ancestor(p, p[b + 1], k - 1)

\* A tree: one root, every parent in range, no cycle.
ValidTree(p) ==
    /\ Len(p) >= 1
    /\ \A k \in 1..Len(p) : p[k] \in -1..(Len(p) - 1)
    /\ Cardinality({k \in 1..Len(p) : p[k] = -1}) = 1
    /\ \A b \in 0..(Len(p) - 1) : Ancestor(p, b, Len(p)) = -1

Star(k) == <<-1>> \o Repeat(0, k)

ParentArrays ==
    {p \in UNION {[1..n -> -1..(n - 1)] : n \in 1..MaxBranches} : ValidTree(p)}
    \cup {Star(k) : k \in 1..MaxKids}

CellKinds == [nseg : 1..MaxNseg, parents : ParentArrays]

NumComps(cs) == SeqSum([i \in 1..Len(cs) |-> cs[i].nseg * Len(cs[i].parents)])

KindsUpTo(n) == {c \in CellKinds : c.nseg * Len(c.parents) <= n}

RECURSIVE NetworksUpTo(_, _)
\* The lists of at most k cells that have at most n compartments together.
NetworksUpTo(k, n) ==
    IF k = 0 THEN {<<>>}
    ELSE {<<>>} \cup UNION {{<<c>> \o rest :
                               rest \in NetworksUpTo(k - 1, n - c.nseg * Len(c.parents))}
                             : c \in KindsUpTo(n)}

\* The networks that are indexed: any single cell, or several cells of at most
\* MaxComps compartments together.
MorphNetworks == {<<c>> : c \in CellKinds} \cup (NetworksUpTo(MaxCells, MaxComps) \ {<<>>})

\* The networks that are stepped: at most MaxStepComps compartments.
StepNetworks == NetworksUpTo(MaxCells, MaxStepComps) \ {<<>>}

Fanout(p, b) == Cardinality({k \in 1..Len(p) : p[k] = b})

MaxFanout(cs) ==
    LET F == {Fanout(cs[i].parents, b) : i \in 1..Len(cs), b \in 0..(MaxBranches + MaxKids)}
    IN  CHOOSE m \in F : \A f \in F : f <= m

(***************************************************************************)
(* Network.__init__ and Network.init_morph.                                *)
(***************************************************************************)
max_num_kids == 4

\* init_morph: self.nbranches = [cell.nbranches for cell in self.cells]
NBranches(cs) == [i \in 1..Len(cs) |-> Len(cs[i].parents)]

\* jnp.cumsum(jnp.asarray([0] + nbranches))
Cumsum0(nb) == [i \in 1..(Len(nb) + 1) |-> SeqSum(SubSeq(nb, 1, i - 1))]

AddToEveryEntry(p, d) == [k \in 1..Len(p) |-> p[k] + d]

\* p.at[1:].add(d): every entry but the first is raised by d.
AtFrom1Add(p, d) == [k \in 1..Len(p) |-> IF k >= 2 THEN p[k] + d ELSE p[k]]

\* init_morph: self.comb_parents
CombParents(cs, cumsum) ==
    Flatten([i \in 1..Len(cs) |-> AtFrom1Add(cs[i].parents, cumsum[i])])

\* init_morph: self.comb_branches_in_each_level = merge_cells(
\*     self.cumsum_num_branches, [cell.branches_in_each_level ...], exclude_first=False)
\* merge_cells and Cell.branches_in_each_level are defined outside network.py; the
\* attribute is kept as the call that produces it.
NotMerged == [call |-> "none"]

CombBranchesInEachLevel(cs, cumsum) ==
    [call |-> "merge_cells", cumsum_num_branches |-> cumsum,
     arrs |-> "branches_in_each_level", ncells |-> Len(cs), exclude_first |-> FALSE]

\* init_morph: the comp_index column, np.arange(nseg * sum(nbranches))
CompIndexColumn(ns, nb) == [r \in 1..(ns * SeqSum(nb)) |-> r - 1]

BranchIndexModulo(ns, nb) == [r \in 1..(ns * SeqSum(nb)) |-> (r - 1) % ns]

\* init_morph: the branch_index column, np.arange(nseg * sum(nbranches)) // nseg
BranchIndexColumn(ns, nb) == [r \in 1..(ns * SeqSum(nb)) |-> (r - 1) \div ns]

\* init_morph: the cell_index column, chain(*[[i] * (nseg * b) for i, b in enumerate(nbranches)])
CellIndexColumn(ns, nb) ==
    Flatten([i \in 1..Len(nb) |-> Repeat(i - 1, ns * nb[i])])

\* init_morph: self.nodes, the rows of the DataFrame in index order.
Nodes(ns, nb) ==
    [r \in 1..(ns * SeqSum(nb)) |->
        [comp_index |-> CompIndexColumn(ns, nb)[r],
         branch_index |-> BranchIndexColumn(ns, nb)[r],
         cell_index |-> CellIndexColumn(ns, nb)[r]]]

\* A conductance attribute: not an attribute of the Network at all, None, the
\* list of the cells' conductances (the conductances of cell i are stood for by
\* i), or what init_branch_conds has built.
UndefinedCond == [kind |-> "undefined", of |-> <<>>]
NoneCond == [kind |-> "None", of |-> <<>>]
CondNames == {"coupling_conds_fwd", "coupling_conds_bwd", "branch_conds_fwd",
              "branch_conds_bwd", "summed_coupling_conds"}

NoStep == [called |-> FALSE]

\* The synapses <<pre, post>> between two compartments of a network of n compartments.
Synapses(n) == {c \in (0..(n - 1)) \X (0..(n - 1)) : c[1] # c[2]}

\* The lists of at most MaxSyn synapses, in the order of their compartments.
Connections(n) ==
    {cn \in UNION {[1..k -> Synapses(n)] : k \in 0..MaxSyn} :
        \A k \in 1..(Len(cn) - 1) :
            \/ cn[k][1] < cn[k + 1][1]
            \/ cn[k][1] = cn[k + 1][1] /\ cn[k][2] <= cn[k + 1][2]}

\* The names step reads that no method of Network assigns, and self.nbranches
\* and self.cumsum_num_branches, which step reads and only init_morph assigns.
\* Whether the Network has them without init_morph rests with the base class
\* Module, which is not part of network.py.
ModuleCandidates ==
    {"nbranches", "cumsum_num_branches", "branches", "params", "syn_channels", "parents",
     "kid_inds_in_each_level", "parents_in_each_level", "branches_in_each_level"}

\* The state after Network(cells, conns).  __init__ runs Module.__init__ first:
\* attrs are the names it may have left on the Network, and the conductances are
\* None ("Initially, the coupling conductances are set to `None`") or not
\* attributes of the Network yet.
InitNetwork(networks, attrs) ==
    /\ cells \in networks
    /\ conns \in IF NumComps(cells) <= MaxStepComps
                THEN Connections(NumComps(cells)) ELSE {<<>>}
    /\ nseg = cells[1].nseg
    /\ initialized_morph = FALSE
    /\ initialized_conds = TRUE
    /\ nbranches = <<>>
    /\ cumsum_num_branches = <<>>
    /\ comb_parents = <<>>
    /\ comb_branches_in_each_level = NotMerged
    /\ nodes = <<>>
    /\ conds \in {[c \in CondNames |-> NoneCond], [c \in CondNames |-> UndefinedCond]}
    /\ module_attrs \in attrs
    /\ last_step = NoStep

NoSwc ==
    /\ swc_content = <<>>
    /\ swc_out = [done |-> FALSE]

NoRename == [called |-> FALSE]

NoChannel ==
    /\ channel_name = <<>>
    /\ channel_params = <<>>
    /\ channel_states = <<>>
    /\ last_rename = NoRename

\* init_morph checks nothing and never raises.  The attributes it fills from
\* neurax.cell helpers alone (comb_parents_in_each_level, comb_cum_kid_inds,
\* comb_cum_kid_inds_in_each_level) are not kept in the model.
init_morph ==
    /\ nbranches' = NBranches(cells)
    /\ cumsum_num_branches' = Cumsum0(nbranches')
    /\ comb_parents' = CombParents(cells, cumsum_num_branches')
    /\ comb_branches_in_each_level' = CombBranchesInEachLevel(cells, cumsum_num_branches')
    /\ nodes' = Nodes(nseg, nbranches')
    /\ initialized_morph' = TRUE
    /\ UNCHANGED <<cells, conns, nseg, initialized_conds, conds, module_attrs, last_step,
                   swcvars, chanvars>>

\* init_conds: each attribute becomes the list of the cells' conductances.
CellConds(cs) == [kind |-> "list", of |-> [i \in 1..Len(cs) |-> i]]

init_conds ==
    /\ conds' = [c \in CondNames |-> CellConds(cells)]
    /\ initialized_conds' = TRUE
    /\ UNCHANGED <<cells, conns, nseg, initialized_morph, nbranches, cumsum_num_branches,
                   comb_parents, comb_branches_in_each_level, nodes, module_attrs, last_step,
                   swcvars, chanvars>>

(***************************************************************************)
(* Network.step.  The state u maps "voltages" and the channel state "m" to *)
(* one value per compartment, and the synapse state "s" (present when the  *)
(* network has synapses) to one value per synapse.                         *)
(***************************************************************************)
Indices(n) == 0..(n - 1)

ChannelKeys == {"m"}
SynapseKeys(cn) == IF Len(cn) > 0 THEN {"s"} ELSE {}
StateKeys(cn) == {"voltages"} \cup ChannelKeys \cup SynapseKeys(cn)

\* Every attribute of the Network.
Attrs ==
    [cells |-> cells, conns |-> conns, nseg |-> nseg,
     initialized_morph |-> initialized_morph, initialized_conds |-> initialized_conds,
     nbranches |-> nbranches, cumsum_num_branches |-> cumsum_num_branches,
     comb_parents |-> comb_parents,
     comb_branches_in_each_level |-> comb_branches_in_each_level,
     nodes |-> nodes, conds |-> conds, module_attrs |-> module_attrs]

\* What init_branch_conds leaves in a conductance attribute.
BuiltCond == [kind |-> "built", of |-> <<>>]

\* Module.init_branch_conds, after the contract of the Conductance Builder, part
\* (c): "the conductance coupling a branch's first compartment to its parent
\* branch's last compartment, plus the 'summed coupling conductance' at each
\* node".  It builds the branch conductances and the summed conductance.
init_branch_conds(cd) ==
    [c \in CondNames |->
        IF c \in {"branch_conds_fwd", "branch_conds_bwd", "summed_coupling_conds"}
        THEN BuiltCond ELSE cd[c]]

\* step: if self.branch_conds_fwd is None: self.init_branch_conds()
CondsAfterStep(cd) ==
    IF cd["branch_conds_fwd"].kind = "None" THEN init_branch_conds(cd) ELSE cd

RECURSIVE ScatterAdd(_, _, _)
\* zeros.at[inds].add(vals): vals[k] is added to the entry with index inds[k].
ScatterAdd(base, inds, vals) ==
    IF inds = <<>> THEN base
    ELSE ScatterAdd([base EXCEPT ![inds[1] + 1] = @ + vals[1]], Tail(inds), Tail(vals))

\* neurax.stimulus.get_external_input: the injected current of every compartment.
get_external_input(voltages, i_inds, i_current) ==
    ScatterAdd(Repeat(0, Len(voltages)), i_inds, i_current)

\* neurax.integrate._step_synapse: each synapse's linearized terms are added to the
\* accumulators of its postsynaptic compartment.  terms[k] = <<voltage term,
\* constant term>> of synapse k, new_s the advanced synapse states.
step_synapse(u, cn, terms, new_s) ==
    LET post == [k \in 1..Len(cn) |-> cn[k][2]]
    IN  [new_syn_states |-> [key \in SynapseKeys(cn) |-> new_s],
         syn_voltage_terms |->
             ScatterAdd(Repeat(0, Len(u["voltages"])), post,
                        [k \in 1..Len(cn) |-> terms[k][1]]),
         syn_constant_terms |->
             ScatterAdd(Repeat(0, Len(u["voltages"])), post,
                        [k \in 1..Len(cn) |-> terms[k][2]])]

\* step: voltage_terms=jnp.reshape(v_terms, ...) in the call of step_voltages.
StepVoltageTerms(v_terms, syn_voltage_terms) == v_terms

\* step: constant_terms=jnp.reshape(const_terms, ...) + jnp.reshape(i_ext, ...)
StepConstantTerms(const_terms, i_ext, syn_constant_terms) ==
    [k \in 1..Len(const_terms) |-> const_terms[k] + i_ext[k]]

\* step: final_state = new_channel_states[0]; final_state["voltages"] = new_voltages
FinalState(new_channel_states, new_syn_states, new_voltages) ==
    [key \in DOMAIN new_channel_states[1] \cup {"voltages"} |->
        IF key = "voltages" THEN new_voltages ELSE new_channel_states[1][key]]

\* The names Network.__init__ assigns (self.name = ...).
InitAttrNames ==
    {"cells", "nseg", "connectivities", "pre_syn_inds", "pre_syn_cell_inds",
     "grouped_post_syn_inds", "grouped_post_syns", "initialized_morph",
     "initialized_conds"}

\* The names init_morph assigns.
MorphAttrNames ==
    {"nbranches", "cumsum_num_branches", "max_num_kids", "comb_parents",
     "comb_parents_in_each_level", "comb_branches_in_each_level", "comb_cum_kid_inds",
     "comb_cum_kid_inds_in_each_level", "nodes", "initialized_morph"}

\* The class attributes and the methods of Network.
ClassAttrNames ==
    {"network_params", "network_states", "__init__", "__getattr__", "init_morph",
     "init_conds", "step"}

\* The methods of the base class Module that the code of Network calls.
ModuleMethodNames ==
    {"_init_params_and_state", "_append_to_params_and_state", "init_branch_conds",
     "step_channels", "step_voltages"}

\* The attributes a read of self.name finds on the Network: those of its class,
\* the names its methods have assigned so far, the names Module left on it, and
\* the conductances once they are attributes (None or built).
DefinedAttrNames ==
    ClassAttrNames \cup ModuleMethodNames \cup InitAttrNames
        \cup (IF initialized_morph THEN MorphAttrNames ELSE {})
        \cup module_attrs
        \cup {c \in CondNames : conds[c].kind # "undefined"}

\* self.key: the attribute if the Network has it; otherwise Python calls
\* Network.__getattr__(key), which asserts key == "cell" and returns
\* CellView(self, self.nodes), reading self.nodes in the same way.
GetAttr(defined, key) ==
    IF key \in defined THEN "defined"
    ELSE IF key = "cell" /\ "nodes" \in defined THEN "CellView"
    ELSE "AssertionError"

\* The attributes step reads, in the order of their first read (the call of
\* self.init_branch_conds, made only when branch_conds_fwd is None, is in
\* CondsAfterStep).
StepReads ==
    <<"nbranches", "nseg", "branch_conds_fwd", "step_channels", "branches", "params",
      "syn_channels", "cumsum_num_branches", "pre_syn_cell_inds", "pre_syn_inds",
      "grouped_post_syn_inds", "grouped_post_syns", "step_voltages",
      "coupling_conds_bwd", "coupling_conds_fwd", "summed_coupling_conds",
      "branch_conds_bwd", "parents", "kid_inds_in_each_level", "parents_in_each_level",
      "branches_in_each_level">>

\* The reads of step that are reads of the morphology.
StepMorphReads ==
    {"nbranches", "nseg", "branches", "cumsum_num_branches", "parents",
     "kid_inds_in_each_level", "parents_in_each_level", "branches_in_each_level"}

\* The shape (nbranches, nseg_per_branch) step gives to jnp.reshape: nbranches is
\* self.nbranches, the list of the cells' branch counts, nseg_per_branch an integer.
ReshapeShape(nb, ns) == [dims |-> <<nb, ns>>, kinds |-> <<"list", "int">>]

\* Before init_morph self.nbranches, if the Network has it, is what Module left
\* there: a list or an integer.
UnindexedShapes(ns) ==
    {[dims |-> <<<<>>, ns>>, kinds |-> <<k, "int">>] : k \in {"list", "int"}}

\* The shapes step can hand to jnp.reshape.
StepShapes ==
    IF initialized_morph THEN {ReshapeShape(nbranches, nseg)} ELSE UnindexedShapes(nseg)

\* jnp.reshape(a, shape) raises TypeError unless every entry of shape is an integer.
ReshapeError(shape) ==
    IF \E k \in 1..Len(shape.kinds) : shape.kinds[k] # "int" THEN "TypeError" ELSE "none"

\* The exception that step raises first, and where: at the read StepReads[pos] of
\* an attribute the Network does not have, or in the reshapes, which are
\* evaluated after the read of self.step_voltages and before the reads that
\* follow it.  Without exception pos is past the last read.  On an indexed
\* network the shape holds the list self.nbranches, so that a step raises
\* whatever Module left on the Network.
StepError(defined, shape) ==
    LET failing == {k \in 1..Len(StepReads) : GetAttr(defined, StepReads[k]) = "AssertionError"}
        first == CHOOSE k \in failing : \A j \in failing : k <= j
        solve == FirstPos(StepReads, "step_voltages")
    IN  IF failing # {} /\ first <= solve
        THEN [error |-> "AssertionError", at |-> StepReads[first], pos |-> first]
        ELSE IF ReshapeError(shape) # "none"
        THEN [error |-> ReshapeError(shape), at |-> "reshape", pos |-> solve]
        ELSE IF failing # {}
        THEN [error |-> "AssertionError", at |-> StepReads[first], pos |-> first]
        ELSE [error |-> "none", at |-> "none", pos |-> Len(StepReads) + 1]

\* One call of step(u, dt, i_inds, i_current).  chan and syn_terms are what
\* step_channels and the synapses compute for u, new_voltages what step_voltages
\* solves.  A step that raises reaches "if self.branch_conds_fwd is None" only
\* when it raises later than that read, and evaluates nothing after the
\* exception: its record holds the exception and no terms.  The arrays are kept
\* flat, one entry per compartment.
StepCall(u, i_inds, i_current, chan, syn_terms, new_s, new_voltages, shape) ==
    LET failure == StepError(DefinedAttrNames, shape)
        conds1 == IF failure.pos > FirstPos(StepReads, "branch_conds_fwd")
                  THEN CondsAfterStep(conds) ELSE conds
        i_ext == get_external_input(u["voltages"], i_inds, i_current)
        syn == step_synapse(u, conns, syn_terms, new_s)
        final_state == FinalState(chan.new_channel_states, syn.new_syn_states, new_voltages)
    IN  /\ conds' = conds1
        /\ last_step' =
             IF failure.error # "none"
             THEN [called |-> TRUE,
                   u |-> u, i_inds |-> i_inds, i_current |-> i_current,
                   error |-> failure.error, at |-> failure.at,
                   pre |-> Attrs,
                   post |-> [Attrs EXCEPT !.conds = conds1]]
             ELSE [called |-> TRUE,
                   u |-> u, i_inds |-> i_inds, i_current |-> i_current,
                   error |-> "none", at |-> "none",
                   v_terms |-> chan.v_terms, const_terms |-> chan.const_terms,
                   syn_terms |-> syn_terms,
                   new_syn_states |-> syn.new_syn_states,
                   syn_voltage_terms |-> syn.syn_voltage_terms,
                   syn_constant_terms |-> syn.syn_constant_terms,
                   i_ext |-> i_ext,
                   num_branches |-> shape.dims[1],
                   voltages |-> u["voltages"],
                   voltage_terms |-> StepVoltageTerms(chan.v_terms, syn.syn_voltage_terms),
                   constant_terms |->
                       StepConstantTerms(chan.const_terms, i_ext, syn.syn_constant_terms),
                   new_voltages |-> new_voltages,
                   returned |-> final_state,
                   pre |-> Attrs,
                   post |-> [Attrs EXCEPT !.conds = conds1]]
        /\ UNCHANGED <<cells, conns, nseg, initialized_morph, initialized_conds, nbranches,
                       cumsum_num_branches, comb_parents, comb_branches_in_each_level,
                       nodes, module_attrs, swcvars, chanvars>>

Levels == 0..MaxTerm

\* The stimulated compartments of a step: at most MaxStim indices, in index order.
Stimulated(n) ==
    {inds \in UNION {[1..k -> Indices(n)] : k \in 0..MaxStim} :
        \A k \in 1..(Len(inds) - 1) : inds[k] <= inds[k + 1]}

\* step can be called on any Network, indexed or not.  On a Network that is not
\* indexed it goes past its first line only if Module left an nbranches on it.
step ==
    /\ ~last_step.called
    /\ \E cv \in Levels, cc \in Levels, cur \in 1..MaxTerm, st \in 1..MaxTerm,
          i_inds \in Stimulated(NumComps(cells)), shape \in StepShapes :
          LET n == NumComps(cells)
              u == [key \in StateKeys(conns) |->
                      IF key = "voltages" THEN Repeat(0, n)
                      ELSE IF key = "m" THEN Repeat(0, n)
                      ELSE Repeat(0, Len(conns))]
              chan == [new_channel_states |-> <<[key \in ChannelKeys |-> Repeat(1, n)]>>,
                       v_terms |-> Repeat(cv, n),
                       const_terms |-> Repeat(cc, n)]
          IN  StepCall(u, i_inds, Repeat(cur, Len(i_inds)), chan,
                       Repeat(<<st, st>>, Len(conns)),
                       Repeat(1, Len(conns)), Repeat(1, n), shape)

\* The caller has taken what step returned or raised; the next call can start.
step_returned ==
    /\ last_step.called
    /\ last_step' = NoStep
    /\ UNCHANGED <<cells, conns, nseg, initialized_morph, initialized_conds, nbranches,
                   cumsum_num_branches, comb_parents, comb_branches_in_each_level,
                   nodes, conds, module_attrs, swcvars, chanvars>>

(***************************************************************************)
(* The specifications: a network that is built, indexed and stepped, and   *)
(* the indexing of larger networks.                                        *)
(***************************************************************************)
Init == InitNetwork(StepNetworks, SUBSET ModuleCandidates) /\ NoSwc /\ NoChannel

Next == init_morph \/ init_conds \/ step \/ step_returned

Spec == Init /\ [][Next]_vars

\* init_morph and init_conds read nothing that Module defines.
InitMorph == InitNetwork(MorphNetworks, {{}}) /\ NoSwc /\ NoChannel

NextMorph == init_morph \/ init_conds

SpecMorph == InitMorph /\ [][NextMorph]_vars

(***************************************************************************)
(* The SWC reader.  Row r of the content has node id r and the parent id   *)
(* content[r] (its last column); a branch is the list of its node ids.     *)
(***************************************************************************)
\* The contents that describe one tree: the first row has no parent (-1), every
\* other row has an earlier row as its parent.
SingleTrees(n) == {c \in [1..n -> -1..(n - 1)] :
                      /\ c[1] = -1
                      /\ \A r \in 2..n : c[r] \in 1..(r - 1)}

Contents == UNION {SingleTrees(n) : n \in 2..MaxNodes}

RECURSIVE BranchInds(_, _)
\* _split_into_branches, first loop: the parent of every row whose parent is not
\* the row before it (rows 1..r of the content).
BranchInds(content, r) ==
    IF r = 0 THEN <<>>
    ELSE IF r = 1 \/ content[r] # r - 1
         THEN Append(BranchInds(content, r - 1), content[r])
         ELSE BranchInds(content, r - 1)

RECURSIVE SplitRows(_, _, _, _, _)
\* _split_into_branches, second loop from row r on.
SplitRows(content, r, starts, all_branches, current_branch) ==
    IF r > Len(content) THEN Append(all_branches, current_branch)
    ELSE IF content[r] \in starts
         THEN SplitRows(content, r + 1, starts,
                        Append(all_branches, current_branch), <<content[r], r>>)
         ELSE SplitRows(content, r + 1, starts, all_branches, Append(current_branch, r))

split_into_branches(content) ==
    SplitRows(content, 1, SeqRange(Tail(BranchInds(content, Len(content)))), <<>>, <<>>)

Last(b) == b[Len(b)]

RemoveAt(s, k) == SubSeq(s, 1, k - 1) \o SubSeq(s, k + 1, Len(s))

RECURSIVE FuseEach(_, _, _)
\* _remove_single_branch_artifacts, the loop over one_vals.  first_val is computed
\* once, before the loop; branches[loc] raises IndexError when loc is past the end.
FuseEach(branches, first_val, one_vals) ==
    IF one_vals = <<>> THEN [raised |-> FALSE, branches |-> branches]
    ELSE LET one_val == one_vals[1]
             loc == FirstPos(first_val, one_val)
         IN  IF loc > Len(branches) THEN [raised |-> TRUE, branches |-> <<>>]
             ELSE LET solo_branch == branches[loc]
                      rest == RemoveAt(branches, loc)
                      new_branches == [k \in 1..Len(rest) |->
                                          IF Last(rest[k]) = one_val
                                          THEN rest[k] \o solo_branch ELSE rest[k]]
                  IN  FuseEach(new_branches, first_val, Tail(one_vals))

remove_single_branch_artifacts(branches) ==
    LET first_val == [k \in 1..Len(branches) |-> branches[k][1]]
        rest == Tail(first_val)
        one_vals == Ascending({v \in SeqRange(rest) :
                                 Cardinality({k \in 1..Len(rest) : rest[k] = v}) = 1})
    IN  FuseEach(branches, first_val, one_vals)

\* np.argsort(first_val, kind="mergesort"): the positions of the branches in the
\* order of their first node, ties in the order of the list.
Sorting(branches) ==
    LET before(j, k) == \/ branches[j][1] < branches[k][1]
                        \/ branches[j][1] = branches[k][1] /\ j < k
    IN  [r \in 1..Len(branches) |->
            CHOOSE k \in 1..Len(branches) :
                Cardinality({j \in 1..Len(branches) : before(j, k)}) = r - 1]

\* _build_parents: parents[i] is the index of the branch that ends in the first node
\* of branch i.  "ind != i" raises ValueError when several branches end there.
build_parents(all_branches) ==
    LET ind(i) == {k \in 1..Len(all_branches) :
                      Last(all_branches[k]) = all_branches[i][1]}
    IN  IF \E i \in 1..Len(all_branches) : Cardinality(ind(i)) > 1
        THEN [raised |-> TRUE, parents |-> <<>>]
        ELSE [raised |-> FALSE,
              parents |-> [i \in 1..Len(all_branches) |->
                              IF ind(i) # {} /\ ind(i) # {i}
                              THEN (CHOOSE k \in ind(i) : TRUE) - 1
                              ELSE -1]]

\* read_swc: the sorted branches and the parents it builds, or that it raised.
read_swc_result(content) ==
    LET fused == remove_single_branch_artifacts(split_into_branches(content))
    IN  IF fused.raised THEN [raised |-> TRUE, sorted_branches |-> <<>>, parents |-> <<>>]
        ELSE LET sorting == Sorting(fused.branches)
                 sorted_branches == [r \in 1..Len(sorting) |-> fused.branches[sorting[r]]]
                 built == build_parents(sorted_branches)
             IN  [raised |-> built.raised, sorted_branches |-> sorted_branches,
                  parents |-> built.parents]

\* swc_out also keeps what _split_into_branches returned (branches) and what
\* _remove_single_branch_artifacts made of it (fused).
read_swc ==
    /\ ~swc_out.done
    /\ swc_out' = [done |-> TRUE,
                   branches |-> split_into_branches(swc_content),
                   fused |-> remove_single_branch_artifacts(split_into_branches(swc_content)),
                   raised |-> read_swc_result(swc_content).raised,
                   sorted_branches |-> read_swc_result(swc_content).sorted_branches,
                   parents |-> read_swc_result(swc_content).parents]
    /\ UNCHANGED <<swc_content, netvars, chanvars>>

NoNetwork ==
    /\ cells = <<>>
    /\ conns = <<>>
    /\ nseg = 0
    /\ initialized_morph = FALSE
    /\ initialized_conds = FALSE
    /\ nbranches = <<>>
    /\ cumsum_num_branches = <<>>
    /\ comb_parents = <<>>
    /\ comb_branches_in_each_level = NotMerged
    /\ nodes = <<>>
    /\ conds = [c \in CondNames |-> UndefinedCond]
    /\ module_attrs = {}
    /\ last_step = NoStep

InitSwc ==
    /\ swc_content \in Contents
    /\ swc_out = [done |-> FALSE]
    /\ NoNetwork
    /\ NoChannel

NextSwc == read_swc

SpecSwc == InitSwc /\ [][NextSwc]_vars

(***************************************************************************)
(* Channel.  A string is the sequence of its characters, a dict the        *)
(* sequence of its items <<key, value>> in insertion order.                *)
(***************************************************************************)
KeyChars == {"a", "_"}
NameChars == {"a", "b"}

Strings(chars, n) == UNION {[1..k -> chars] : k \in 1..n}

Keys == Strings(KeyChars, MaxKeyLen)
Names == Strings(NameChars, MaxNameLen)

DictKeys(d) == {d[k][1] : k \in 1..Len(d)}

\* The dicts of n items with keys of Keys; the value of the k-th item is k.
Dicts(n) ==
    {[k \in 1..n |-> <<ks[k], k>>] :
        ks \in {t \in [1..n -> Keys] : \A j, k \in 1..n : t[j] = t[k] => j = k}}

\* str.find("_"): the index of the first underscore, -1 if there is none.
Find(key) ==
    IF \E k \in 1..Len(key) : key[k] = "_"
    THEN (CHOOSE k \in 1..Len(key) : key[k] = "_" /\ \A j \in 1..(k - 1) : key[j] # "_") - 1
    ELSE -1

\* key[i:], where a negative i counts from the end of the key.
SliceFrom(key, i) ==
    LET start == IF i >= 0 THEN i ELSE IF Len(key) + i >= 0 THEN Len(key) + i ELSE 0
    IN  SubSeq(key, start + 1, Len(key))

KeyNotRenamed(new_name, key) == key

\* new_name + key[key.find("_") :]
RenamedKey(new_name, key) == new_name \o SliceFrom(key, Find(key))

\* d[key] = value: an item with this key gets the value, else the item is added.
SetItem(d, key, value) ==
    IF key \in DictKeys(d)
    THEN [k \in 1..Len(d) |-> IF d[k][1] = key THEN <<key, value>> ELSE d[k]]
    ELSE Append(d, <<key, value>>)

RECURSIVE RenamedItems(_, _, _)
\* {new_name + key[key.find("_") :]: value for key, value in d.items()}: the
\* items of d from the k-th on are put into acc.
RenamedItems(new_name, d, acc) ==
    IF d = <<>> THEN acc
    ELSE RenamedItems(new_name, Tail(d), SetItem(acc, RenamedKey(new_name, d[1][1]), d[1][2]))

get_name == channel_name

change_name ==
    \E new_name \in Names :
        /\ channel_params' = RenamedItems(new_name, channel_params, <<>>)
        /\ channel_states' = RenamedItems(new_name, channel_states, <<>>)
        /\ channel_name' = new_name
        /\ last_rename' = [called |-> TRUE, new_name |-> new_name,
                           channel_params |-> channel_params,
                           channel_states |-> channel_states,
                           repeated |-> last_rename.called]
        /\ UNCHANGED <<netvars, swcvars>>

\* A channel of a subclass: a name, and parameters and states with any keys.
InitChannel ==
    /\ NoNetwork
    /\ NoSwc
    /\ channel_name \in Names
    /\ \E n \in 0..MaxEntries, m \in 0..MaxEntries :
           /\ n + m <= MaxEntries
           /\ channel_params \in Dicts(n)
           /\ channel_states \in Dicts(m)
    /\ last_rename = NoRename

NextChannel == change_name

SpecChannel == InitChannel /\ [][NextChannel]_vars

(***************************************************************************)
(* Properties of Network.step.                                             *)
(***************************************************************************)
RECURSIVE SumWhere(_, _, _)
\* The sum of vals[k] over the k with keys[k] = key.
SumWhere(keys, vals, key) ==
    IF keys = <<>> THEN 0
    ELSE (IF keys[1] = key THEN vals[1] ELSE 0) + SumWhere(Tail(keys), Tail(vals), key)

\* The term (j = 1: voltage term, j = 2: constant term) that the synapses of the
\* last step contribute at compartment i.
SynapseTermAt(i, j) ==
    SumWhere([k \in 1..Len(conns) |-> conns[k][2]],
             [k \in 1..Len(conns) |-> last_step.syn_terms[k][j]], i)

\* The current that the last step injects at compartment i.
StimulusAt(i) == SumWhere(last_step.i_inds, last_step.i_current, i)

\* C1: a step on an indexed network reaches the solver, and the terms it hands to
\* step_voltages hold every synapse's voltage term and constant term at the
\* synapse's postsynaptic compartment, and at no other compartment: at
\* compartment i they are the channel terms (plus the stimulus) plus the terms of
\* exactly the synapses whose postsynaptic compartment is i.
C1_SynapseTermsAtPost ==
    (last_step.called /\ last_step.pre.initialized_morph) =>
        /\ last_step.error = "none"
        /\ \A i \in Indices(Len(last_step.voltages)) :
               /\ last_step.voltage_terms[i + 1] =
                      last_step.v_terms[i + 1] + SynapseTermAt(i, 1)
               /\ last_step.constant_terms[i + 1] =
                      last_step.const_terms[i + 1] + StimulusAt(i) + SynapseTermAt(i, 2)

\* C2: a step on an indexed network returns a state; it has the keys of u, every
\* entry as long as in u, and its voltage entry has one value per compartment of
\* the network.
C2_ReturnedShapeOfU ==
    (last_step.called /\ last_step.pre.initialized_morph) =>
        /\ last_step.error = "none"
        /\ DOMAIN last_step.returned = DOMAIN last_step.u
        /\ \A key \in DOMAIN last_step.u :
               Len(last_step.returned[key]) = Len(last_step.u[key])
        /\ Len(last_step.returned["voltages"]) = NumComps(cells)

\* C3: a step on an indexed network reaches the solver, and at every compartment
\* the constant term handed to the solver is the channel constant term plus the
\* current injected there (zero where nothing is injected), and the voltage term
\* handed to the solver is the channel voltage term whatever the stimulus.
C3_StimulusIsConstantTerm ==
    (last_step.called /\ last_step.pre.initialized_morph) =>
        /\ last_step.error = "none"
        /\ \A i \in Indices(Len(last_step.voltages)) :
               /\ last_step.constant_terms[i + 1] =
                      last_step.const_terms[i + 1] + StimulusAt(i)
               /\ last_step.voltage_terms[i + 1] = last_step.v_terms[i + 1]

\* C4: a call of step leaves every attribute of the Network (morphology
\* structures, levels, conductances, what Module left on it) as it was before
\* the call.  (The claim says the same of the input state u; whether a step
\* writes to u rests with step_channels, which is not part of network.py.)
C4_StepHasNoSideEffect == last_step.called => last_step.post = last_step.pre

\* C12: on a network that init_morph and init_conds have prepared, every
\* morphology attribute step reads is an attribute the Network has, the branch
\* count of the shape the voltages are reshaped to is the total number of
\* branches of all cells, and step raises nothing.
C12_StepReadsDefinedMorphology ==
    (/\ last_step.called
     /\ last_step.pre.initialized_morph
     /\ \A c \in CondNames : last_step.pre.conds[c].kind \in {"list", "built"}) =>
        /\ \A a \in StepMorphReads : GetAttr(DefinedAttrNames, a) = "defined"
        /\ ReshapeShape(nbranches, nseg).kinds[1] = "int"
        /\ ReshapeShape(nbranches, nseg).dims[1] = SeqSum(NBranches(cells))
        /\ last_step.error = "none"

(***************************************************************************)
(* Properties of Network.__init__, init_morph and init_conds.              *)
(***************************************************************************)
\* The branches of all cells before cell i (i = 1 is the first cell).
BranchesBefore(cs, i) == SeqSum([j \in 1..(i - 1) |-> Len(cs[j].parents)])

\* <<cell, global branch>> of every compartment, enumerating the cells in input
\* order, the branches of a cell in input order and the compartments of a branch.
OwnersInLexOrder(cs) ==
    Flatten([i \in 1..Len(cs) |->
        Flatten([b \in 1..Len(cs[i].parents) |->
            Repeat(<<i - 1, BranchesBefore(cs, i) + b - 1>>, cs[i].nseg)])])

SameNseg(cs) == \A i \in 1..Len(cs) : cs[i].nseg = cs[1].nseg

RowsAreLexOrder ==
    LET owners == OwnersInLexOrder(cells)
    IN  /\ Len(nodes) = NumComps(cells)
        /\ \A r \in 1..Len(nodes) :
               /\ nodes[r].comp_index = r - 1
               /\ nodes[r].cell_index = owners[r][1]
               /\ nodes[r].branch_index = owners[r][2]

\* C5 as stated: after init_morph the rows of nodes are indexed 0..N-1, N the number
\* of compartments of all cells, and row r names the cell and the branch that own
\* the r-th compartment in (cell, branch, compartment) order.
C5_NodesInLexOrder == initialized_morph => RowsAreLexOrder

\* C5 amended: the same, for networks whose cells all have the number of
\* compartments per branch of the first cell.
C5_NodesInLexOrderSameNseg == (initialized_morph /\ SameNseg(cells)) => RowsAreLexOrder

\* Two indexed cells, the first with several branches of several compartments.
C5_Witness ==
    /\ initialized_morph
    /\ SameNseg(cells)
    /\ Len(cells) = 2
    /\ nseg = 2
    /\ Len(cells[1].parents) = 2

\* The offsets are the branch counts of the cells before.
OffsetsAreBranchesBefore ==
    /\ Len(cumsum_num_branches) = Len(cells) + 1
    /\ \A i \in 1..(Len(cells) + 1) : cumsum_num_branches[i] = BranchesBefore(cells, i)

\* The entries of comb_parents of cell i: the root stays -1, every other branch
\* gets its local parent plus the offset of the cell, a branch of the same cell.
CellParentsAreGlobal(i) ==
    LET off == BranchesBefore(cells, i)
        p == cells[i].parents
    IN  \A b \in 1..Len(p) :
            /\ comb_parents[off + b] = IF p[b] = -1 THEN -1 ELSE p[b] + off
            /\ comb_parents[off + b] \in {-1} \cup (off..(off + Len(p) - 1))

\* C6 as stated: after init_morph, cumsum_num_branches[i] is the number of branches
\* of the cells before cell i, and for every cell (every parent array is a tree)
\* comb_parents keeps the root at -1 and gives every other branch its local parent
\* plus the offset of the cell.
C6_CombParentsGlobal ==
    initialized_morph =>
        /\ OffsetsAreBranchesBefore
        /\ \A i \in 1..Len(cells) : CellParentsAreGlobal(i)

\* C6 amended: the same, for the cells whose root is their branch 0.
C6_CombParentsGlobalRootFirst ==
    initialized_morph =>
        /\ OffsetsAreBranchesBefore
        /\ \A i \in 1..Len(cells) : cells[i].parents[1] = -1 => CellParentsAreGlobal(i)

\* An indexed network whose second cell has its root first and a child branch.
C6_Witness ==
    /\ initialized_morph
    /\ Len(cells) = 2
    /\ Len(cells[2].parents) >= 2
    /\ cells[2].parents[1] = -1

\* C8: a network in which some branch has more than max_num_kids children is
\* never indexed: init_morph fails on it.
C8_FanoutRejectedAtIndexing == initialized_morph => MaxFanout(cells) <= max_num_kids

\* C9: the conductances are marked as built only after the morphology is indexed.
C9_CondsOnlyAfterMorph == initialized_conds => initialized_morph

(***************************************************************************)
(* Properties of read_swc.                                                 *)
(***************************************************************************)
\* C10: for a content that describes one tree, read_swc returns a parent array
\* that is a branch tree: entry 0 is the only -1, and every other entry i is an
\* earlier branch, the one that ends in the first node of branch i.
C10_ParentsAreBranchTree ==
    swc_out.done =>
        /\ ~swc_out.raised
        /\ Len(swc_out.parents) >= 1
        /\ swc_out.parents[1] = -1
        /\ \A i \in 2..Len(swc_out.parents) :
               /\ 0 <= swc_out.parents[i]
               /\ swc_out.parents[i] < i - 1
               /\ Last(swc_out.sorted_branches[swc_out.parents[i] + 1]) =
                      swc_out.sorted_branches[i][1]

(***************************************************************************)
(* Properties of _remove_single_branch_artifacts.                          *)
(***************************************************************************)
\* The positions (from 2) of the only children of a list of branches: the
\* branches that are the single branch starting at their first node.
OnlyChildren(branches) ==
    {k \in 2..Len(branches) :
        Cardinality({j \in 2..Len(branches) : branches[j][1] = branches[k][1]}) = 1}

RECURSIVE FusedOnto(_, _)
\* Branch b with every only child of the list that starts at its end fused onto it.
FusedOnto(branches, b) ==
    LET next == {k \in OnlyChildren(branches) : branches[k][1] = Last(b)}
    IN  IF next = {} THEN b
        ELSE FusedOnto(branches, b \o branches[CHOOSE k \in next : TRUE])

\* The list the fusion is to return: the branches that are not only children, in
\* their order, each with the only children that continue it.
FusedBranches(branches) ==
    LET kept == Ascending((1..Len(branches)) \ OnlyChildren(branches))
    IN  [r \in 1..Len(kept) |-> FusedOnto(branches, branches[kept[r]])]

\* C11: for any number of only children, _remove_single_branch_artifacts returns
\* a list without only children, in which every only child is fused onto the end
\* of the branch that ends at its first node and every other branch is kept as is.
C11_OnlyChildrenFused ==
    swc_out.done =>
        /\ ~swc_out.fused.raised
        /\ OnlyChildren(swc_out.fused.branches) = {}
        /\ swc_out.fused.branches = FusedBranches(swc_out.branches)

(***************************************************************************)
(* Properties of Channel.change_name.                                      *)
(***************************************************************************)
\* The suffix of a key that starts at its first underscore (empty if the key has
\* no underscore).
Suffix(key) == IF Find(key) >= 0 THEN SubSeq(key, Find(key) + 1, Len(key)) ELSE <<>>

\* Dict now is dict before with every key replaced by name and the key's suffix:
\* as many items, with the same values.
RenamedFrom(before, now, name) ==
    /\ Len(now) = Len(before)
    /\ \A k \in 1..Len(before) : now[k] = <<name \o Suffix(before[k][1]), before[k][2]>>

\* Every key of the dict has an underscore, and no two keys have the same suffix.
PrefixedKeys(d) ==
    /\ \A k \in 1..Len(d) : Find(d[k][1]) >= 0
    /\ \A j, k \in 1..Len(d) : Suffix(d[j][1]) = Suffix(d[k][1]) => j = k

\* C13 as stated: after change_name(n), also after repeated calls, get_name()
\* is n and the parameters and the states are those before the call, as many and
\* with the same values, each key being n followed by the old key's suffix from
\* its first underscore, whatever the keys are.
C13_RenameKeepsEverything ==
    last_rename.called =>
        /\ get_name = last_rename.new_name
        /\ RenamedFrom(last_rename.channel_params, channel_params, last_rename.new_name)
        /\ RenamedFrom(last_rename.channel_states, channel_states, last_rename.new_name)

\* C13 amended: the same, for parameters and states whose keys all have an
\* underscore and differ in their suffixes; the renamed keys are again such keys.
C13_RenameKeepsPrefixedKeys ==
    (/\ last_rename.called
     /\ PrefixedKeys(last_rename.channel_params)
     /\ PrefixedKeys(last_rename.channel_states)) =>
        /\ get_name = last_rename.new_name
        /\ RenamedFrom(last_rename.channel_params, channel_params, last_rename.new_name)
        /\ RenamedFrom(last_rename.channel_states, channel_states, last_rename.new_name)
        /\ PrefixedKeys(channel_params)
        /\ PrefixedKeys(channel_states)

\* A repeated call that gives a new name to a channel with two parameters whose
\* keys have an underscore and differ in their suffixes.
C13_Witness ==
    /\ last_rename.called
    /\ last_rename.repeated
    /\ Len(last_rename.channel_params) >= 2
    /\ PrefixedKeys(last_rename.channel_params)
    /\ PrefixedKeys(last_rename.channel_states)
    /\ channel_params # last_rename.channel_params

====
